---- MODULE Spec2Model ----
(***************************************************************************)
(* Verification model of the FTRT-Cambrian correlation project.            *)
(*                                                                         *)
(*   Spec          the React Dashboard (frontend/src/components/           *)
(*                 Dashboard.js) driving the three functions of            *)
(*                 frontend/src/services/api.js.                           *)
(*   SpecExplorer  the DataExplorer component (second half of App.js).     *)
(*   SpecEngine    the correlation engine behind GET /api/correlations.    *)
(*                 Its code is not part of the sources at hand; it is      *)
(*                 modelled from sections 4.3 and 4.4 of the               *)
(*                 specification.                                          *)
(***************************************************************************)
EXTENDS Integers, Sequences, FiniteSets, TLC

(***************************************************************************)
(* Bounds of the model.                                                    *)
(***************************************************************************)
MaxLoads == 2
MaxEvents == 3
MaxDay == 5
MaxLagDays == 4

\* The dates the date inputs can be set to (day numbers).
Dates == {1, 2}

(***************************************************************************)
(* JavaScript values.  null/undefined and strings are string tokens.       *)
(***************************************************************************)
Null == "<null>"
Undefined == "<undefined>"

\* ToBoolean of the values a JSON body can carry in `success` / `message`.
Truthy(v) == v \notin {"false", "0", "", Null, Undefined}

SuccessValues == {"true", "1", "false", "0", Undefined}
MessageValues == {"", "InvalidRange", Undefined}

(***************************************************************************)
(* Payloads.  best_correlation is a record with a `present` flag; numbers  *)
(* are fixed point: correlation_coefficient in units of 10^-5, p_value in  *)
(* units of 10^-7.                                                         *)
(***************************************************************************)
NoBest ==
  [present |-> FALSE, correlation_coefficient |-> 0, p_value |-> 0,
   time_lag_days |-> 0, significant |-> FALSE]

Bests ==
  { NoBest,
    [present |-> TRUE, correlation_coefficient |-> 0, p_value |-> 10000000,
     time_lag_days |-> 0, significant |-> FALSE],
    [present |-> TRUE, correlation_coefficient |-> -65005, p_value |-> 200004,
     time_lag_days |-> 30, significant |-> TRUE] }

NullData == [ds |-> "null", s |-> 0, e |-> 0, best |-> NoBest]
EmptyArray == [ds |-> "array", s |-> 0, e |-> 0, best |-> NoBest]

\* What the server can put in `data` for endpoint fn and the range (s, e).
DataFor(fn, s, e) ==
  { [ds |-> fn, s |-> s, e |-> e, best |-> b] :
      b \in IF fn = "correlations" THEN Bests ELSE {NoBest} }

(***************************************************************************)
(* Outcome of `await fetch(url)` followed by `await response.json()`.      *)
(***************************************************************************)
Outcome(k, su, m, d) == [kind |-> k, success |-> su, message |-> m, data |-> d]

Outcomes(fn, s, e) ==
  { Outcome("network", Undefined, "Failed to fetch", NullData),
    Outcome("parse", Undefined, "Unexpected token < in JSON", NullData),
    Outcome("nonobject", Undefined, Undefined, NullData) }
  \cup { Outcome("body", su, m, NullData) :
           su \in {x \in SuccessValues : ~Truthy(x)}, m \in MessageValues }
  \cup { Outcome("body", su, Undefined, d) :
           su \in {x \in SuccessValues : Truthy(x)}, d \in DataFor(fn, s, e) }

\* The outcomes the Dashboard model draws from: one representative of each
\* value of `success` that the api functions treat alike.
DashOutcomes(fn, s, e) ==
  { o \in Outcomes(fn, s, e) :
      /\ o.kind \notin {"parse", "nonobject"}
      /\ o.kind = "body" => o.success \in {"true", "false"}
      /\ o.kind = "body" /\ ~Truthy(o.success) => o.message # "" }

(***************************************************************************)
(* frontend/src/services/api.js                                            *)
(***************************************************************************)
ApiFns == {"correlations", "cosmic-events", "evolutionary-events"}

FallbackMessage(fn) ==
  CASE fn = "correlations" -> "Failed to fetch correlations"
    [] fn = "cosmic-events" -> "Failed to fetch cosmic events"
    [] fn = "evolutionary-events" -> "Failed to fetch evolutionary events"

Return(body) == [kind |-> "return", value |-> body, message |-> Undefined]
Throw(msg) ==
  [kind |-> "throw",
   value |-> Outcome("none", Undefined, Undefined, NullData),
   message |-> msg]

ApiCallRet(fn, o) ==
  IF o.kind \in {"network", "parse"} THEN Throw(o.message)
  ELSE IF o.kind = "nonobject" THEN Throw("Cannot read properties of null")
  ELSE Return(o)

\* getCorrelations / getCosmicEvents / getEvolutionaryEvents: the value
\* returned or the error thrown once fetch and json() have settled with o.
\* A rejected fetch or json() is caught and rethrown; reading `success` of a
\* body that is not an object raises a TypeError, rethrown alike.
ApiCall(fn, o) ==
  IF o.kind \in {"network", "parse"} THEN Throw(o.message)
  ELSE IF o.kind = "nonobject" THEN Throw("Cannot read properties of null")
  ELSE IF ~Truthy(o.success)
       THEN Throw(IF Truthy(o.message) THEN o.message ELSE FallbackMessage(fn))
       ELSE Return(o)

ApiFetchCountRetry(fn, o) == IF o.kind = "network" THEN 2 ELSE 1

\* Number of fetch() invocations one call of an api function makes.
ApiFetchCount(fn, o) == 1

(***************************************************************************)
(* State.                                                                  *)
(***************************************************************************)
VARIABLES
  \* Dashboard (useState) ...
  mounted, loading, error, correlations, cosmicEvents, evolutionaryEvents,
  startDate, endDate, activeTab,
  loads,        \* the fetchData invocations, in the order they were started
  fetches,      \* number of fetch() calls issued so far
  quiet,        \* a load has failed and the user has not acted since
  \* ... one call of an api function, followed from its fetch to its result
  apiPc, apiFn, apiUrl, apiFetched, apiOutcome, apiResult,
  \* ... DataExplorer: its state, its useMemo value, the two arrays it was
  \* handed as props, and those arrays as they were when handed over
  activeDataset, filter, sortBy, sortOrder, data,
  propCosmicEvents, propEvolutionaryEvents, received, explorer,
  lastClick,    \* the header clicked last and the sort state it found, while
                \* nothing else has been done since
  \* ... the correlation engine serving GetCorrelationReport
  request,      \* start_date, end_date, max_lag_days
  upstream,     \* what the data sources hold; nothing changes it
  call,         \* 1 for the first call, 2 for its repetition
  pc,           \* "new", "collect", "sweep", "done"
  cosmicStep, evolutionaryStep,   \* the two upstream steps
  series,       \* the two discretized series
  pendingLags, completed, running,   \* the lag sweep
  result, firstResult

dashVars ==
  <<mounted, loading, error, correlations, cosmicEvents, evolutionaryEvents,
    startDate, endDate, activeTab, loads, fetches, quiet>>

apiVars == <<apiPc, apiFn, apiUrl, apiFetched, apiOutcome, apiResult>>

exVars ==
  <<activeDataset, filter, sortBy, sortOrder, data, propCosmicEvents,
    propEvolutionaryEvents, received, explorer, lastClick>>

engVars ==
  <<request, upstream, call, pc, cosmicStep, evolutionaryStep, series,
    pendingLags, completed, running, result, firstResult>>

vars == <<dashVars, apiVars, exVars, engVars>>

(***************************************************************************)
(* One api call on its own.                                                *)
(***************************************************************************)
TypeArgs == {Undefined, "", "ftrt"}

NoUrl == [path |-> "none", start_date |-> 0, end_date |-> 0, type |-> Undefined]
NoOutcome == Outcome("none", Undefined, Undefined, NullData)

\* The URL an api function fetches: `&type=` is appended by the two event
\* functions when the argument is truthy.
Url(fn, s, e, type) ==
  [path |-> fn, start_date |-> s, end_date |-> e,
   type |-> IF fn # "correlations" /\ Truthy(type) THEN type ELSE Undefined]

ApiInit ==
  /\ apiPc = "idle"
  /\ apiFn = "none"
  /\ apiUrl = NoUrl
  /\ apiFetched = 0
  /\ apiOutcome = NoOutcome
  /\ apiResult = Throw(Undefined)

\* The call up to `await fetch(...)`.
CallApi(fn, s, e, type) ==
  /\ apiPc = "idle"
  /\ apiPc' = "pending"
  /\ apiFn' = fn
  /\ apiUrl' = Url(fn, s, e, type)
  /\ apiFetched' = 1
  /\ apiOutcome' = NoOutcome
  /\ apiResult' = Throw(Undefined)
  /\ UNCHANGED <<dashVars, exVars, engVars>>

\* fetch and json() settle with o; the function returns or throws.
SettleApi(o) ==
  /\ apiPc = "pending"
  /\ apiPc' = "settled"
  /\ apiOutcome' = o
  /\ apiResult' = ApiCall(apiFn, o)
  /\ apiFetched' = apiFetched + (ApiFetchCount(apiFn, o) - 1)
  /\ UNCHANGED <<apiFn, apiUrl>>
  /\ UNCHANGED <<dashVars, exVars, engVars>>

\* The caller has taken the result; the next call can be made.
NextCall ==
  /\ apiPc = "settled"
  /\ apiPc' = "idle"
  /\ apiFn' = "none"
  /\ apiUrl' = NoUrl
  /\ apiFetched' = 0
  /\ apiOutcome' = NoOutcome
  /\ apiResult' = Throw(Undefined)
  /\ UNCHANGED <<dashVars, exVars, engVars>>

ApiNext ==
  \/ \E fn \in ApiFns, s \in Dates, e \in Dates, type \in TypeArgs :
       CallApi(fn, s, e, type)
  \/ \E o \in Outcomes(apiFn, apiUrl.start_date, apiUrl.end_date) : SettleApi(o)
  \/ NextCall

(***************************************************************************)
(* frontend/src/components/Dashboard.js                                    *)
(***************************************************************************)
Tabs == {"correlations", "timeline", "explorer"}

DashInit ==
  /\ mounted = FALSE
  /\ loading = TRUE
  /\ error = Null
  /\ correlations = NullData
  /\ cosmicEvents = EmptyArray
  /\ evolutionaryEvents = EmptyArray
  /\ startDate = 1
  /\ endDate = 2
  /\ activeTab = "correlations"
  /\ loads = <<>>
  /\ fetches = 0
  /\ quiet = FALSE

\* One invocation of fetchData: the dates its closure captured, the call it
\* is awaiting (or done / failed, and then the call that failed), and its
\* locals correlationsData.data and cosmicData.data.
NewLoad(k, s, e) ==
  [kind |-> k, s |-> s, e |-> e, pc |-> "correlations", at |-> "none",
   correlationsData |-> NullData, cosmicData |-> NullData]

NextFnEvolutionaryFirst(fn) ==
  CASE fn = "correlations" -> "evolutionary-events"
    [] fn = "evolutionary-events" -> "cosmic-events"
    [] fn = "cosmic-events" -> "done"

\* The call fetchData makes after the call of fn has returned.
NextFn(fn) ==
  CASE fn = "correlations" -> "cosmic-events"
    [] fn = "cosmic-events" -> "evolutionary-events"
    [] fn = "evolutionary-events" -> "done"

\* The body of the useEffect: fetchData up to its first await.
EffectFetchData(s, e) ==
  /\ loading' = TRUE
  /\ error' = Null
  /\ loads' = Append(loads, NewLoad("effect", s, e))
  /\ fetches' = fetches + 1

Mount ==
  /\ ~mounted
  /\ mounted' = TRUE
  /\ EffectFetchData(startDate, endDate)
  /\ UNCHANGED <<correlations, cosmicEvents, evolutionaryEvents, startDate,
                 endDate, activeTab, quiet>>
  /\ UNCHANGED <<apiVars, exVars, engVars>>

ChangeStartDate(d) ==
  /\ mounted
  /\ d # startDate
  /\ Len(loads) < MaxLoads
  /\ startDate' = d
  /\ EffectFetchData(d, endDate)
  /\ quiet' = FALSE
  /\ UNCHANGED <<mounted, correlations, cosmicEvents, evolutionaryEvents,
                 endDate, activeTab>>
  /\ UNCHANGED <<apiVars, exVars, engVars>>

ChangeEndDate(d) ==
  /\ mounted
  /\ d # endDate
  /\ Len(loads) < MaxLoads
  /\ endDate' = d
  /\ EffectFetchData(startDate, d)
  /\ quiet' = FALSE
  /\ UNCHANGED <<mounted, correlations, cosmicEvents, evolutionaryEvents,
                 startDate, activeTab>>
  /\ UNCHANGED <<apiVars, exVars, engVars>>

HandleRefresh ==
  /\ mounted
  /\ Len(loads) < MaxLoads
  /\ loading' = TRUE
  /\ loads' = Append(loads, NewLoad("refresh", startDate, endDate))
  /\ fetches' = fetches + 1
  /\ quiet' = FALSE
  /\ UNCHANGED <<mounted, error, correlations, cosmicEvents,
                 evolutionaryEvents, startDate, endDate, activeTab>>
  /\ UNCHANGED <<apiVars, exVars, engVars>>

SetActiveTab(t) ==
  /\ mounted
  /\ t # activeTab
  /\ activeTab' = t
  /\ UNCHANGED <<mounted, loading, error, correlations, cosmicEvents,
                 evolutionaryEvents, startDate, endDate, loads, fetches,
                 quiet>>
  /\ UNCHANGED <<apiVars, exVars, engVars>>

SettleSetsUnchecked(i, o) ==
  LET l == loads[i]
      fn == l.pc
      res == ApiCall(fn, o)
      ok == res.kind = "return"
      nxt == NextFn(fn)
  IN /\ correlations' =
          IF fn = "correlations" THEN res.value.data ELSE correlations
     /\ cosmicEvents' =
          IF fn = "cosmic-events" THEN res.value.data ELSE cosmicEvents
     /\ evolutionaryEvents' =
          IF fn = "evolutionary-events" THEN res.value.data
          ELSE evolutionaryEvents
     /\ error' = IF ok THEN error ELSE res.message
     /\ loading' = IF ok /\ nxt # "done" THEN loading ELSE FALSE
     /\ loads' =
          [loads EXCEPT ![i] =
             IF ok /\ nxt # "done"
             THEN [l EXCEPT !.pc = nxt,
                            !.correlationsData =
                               IF fn = "correlations" THEN res.value.data ELSE @,
                            !.cosmicData =
                               IF fn = "cosmic-events" THEN res.value.data ELSE @]
             ELSE [l EXCEPT !.pc = IF ok THEN "done" ELSE "failed",
                            !.at = fn,
                            !.correlationsData = NullData,
                            !.cosmicData = NullData]]
     /\ fetches' =
          fetches + (ApiFetchCount(fn, o) - 1)
                  + (IF ok /\ nxt # "done" THEN 1 ELSE 0)
     /\ quiet' = IF ok THEN quiet ELSE TRUE
     /\ UNCHANGED <<mounted, startDate, endDate, activeTab>>
     /\ UNCHANGED <<apiVars, exVars, engVars>>

\* The continuation of fetchData number i after its pending await settles
\* with outcome o (the same code in the effect and in handleRefresh): the
\* setter, then the next call up to its fetch, or the catch block.
Settle(i, o) ==
  LET l == loads[i]
      fn == l.pc
      res == ApiCall(fn, o)
      ok == res.kind = "return"
      nxt == NextFn(fn)
  IN /\ correlations' =
          IF ok /\ fn = "correlations" THEN res.value.data ELSE correlations
     /\ cosmicEvents' =
          IF ok /\ fn = "cosmic-events" THEN res.value.data ELSE cosmicEvents
     /\ evolutionaryEvents' =
          IF ok /\ fn = "evolutionary-events" THEN res.value.data
          ELSE evolutionaryEvents
     /\ error' = IF ok THEN error ELSE res.message
     /\ loading' = IF ok /\ nxt # "done" THEN loading ELSE FALSE
     /\ loads' =
          [loads EXCEPT ![i] =
             IF ok /\ nxt # "done"
             THEN [l EXCEPT !.pc = nxt,
                            !.correlationsData =
                               IF fn = "correlations" THEN res.value.data ELSE @,
                            !.cosmicData =
                               IF fn = "cosmic-events" THEN res.value.data ELSE @]
             ELSE [l EXCEPT !.pc = IF ok THEN "done" ELSE "failed",
                            !.at = fn,
                            !.correlationsData = NullData,
                            !.cosmicData = NullData]]
     /\ fetches' =
          fetches + (ApiFetchCount(fn, o) - 1)
                  + (IF ok /\ nxt # "done" THEN 1 ELSE 0)
     /\ quiet' = IF ok THEN quiet ELSE TRUE
     /\ UNCHANGED <<mounted, startDate, endDate, activeTab>>
     /\ UNCHANGED <<apiVars, exVars, engVars>>

Respond ==
  \E i \in 1..Len(loads) :
    /\ loads[i].pc \in ApiFns
    /\ \E o \in DashOutcomes(loads[i].pc, loads[i].s, loads[i].e) : Settle(i, o)

\* renderContent
View ==
  IF loading THEN "spinner"
  ELSE IF error # Null THEN "alert"
  ELSE activeTab

(***************************************************************************)
(* DataExplorer (frontend/src/App.js, from line 23).                       *)
(*                                                                         *)
(* Strings are sequences of characters; a missing string field is          *)
(* UndefinedStr.  Timestamps are day numbers, magnitudes are in tenths.    *)
(***************************************************************************)
UndefinedStr == <<Undefined>>

planetary_alignment == <<"p", "a">>
geomagnetic_weakness == <<"g", "w">>
speciation == <<"s", "p">>
extinction == <<"e", "x">>

\* UTF-16 code units of the characters that occur.
Code(c) ==
  CASE c = "A" -> 65 [] c = "G" -> 71 [] c = "P" -> 80 [] c = "S" -> 83
    [] c = "a" -> 97 [] c = "e" -> 101 [] c = "g" -> 103 [] c = "p" -> 112
    [] c = "s" -> 115 [] c = "w" -> 119 [] c = "x" -> 120

\* String.prototype.toLowerCase
LowerChar(c) ==
  CASE c = "A" -> "a" [] c = "G" -> "g" [] c = "P" -> "p" [] c = "S" -> "s"
    [] OTHER -> c

ToLowerCase(str) == [i \in 1..Len(str) |-> LowerChar(str[i])]

\* String.prototype.includes
Includes(str, sub) ==
  \E k \in 0..(Len(str) - Len(sub)) :
    \A i \in 1..Len(sub) : str[k + i] = sub[i]

RECURSIVE LexGt(_, _)
\* a > b on strings: code units compared from the left.
LexGt(a, b) ==
  IF a = <<>> THEN FALSE
  ELSE IF b = <<>> THEN TRUE
  ELSE IF Code(a[1]) # Code(b[1]) THEN Code(a[1]) > Code(b[1])
  ELSE LexGt(Tail(a), Tail(b))

MsPerDay == 86400000

\* new Date(timestamp), as its time value
DateValue(ts) == ts * MsPerDay

\* An event as the API example writes it (the type in `type`) and as the data
\* dictionary writes it (the type in `event_type`).
Event(shape, ts, ty, mag, desc) ==
  [timestamp |-> ts,
   type |-> IF shape = "type" THEN ty ELSE UndefinedStr,
   event_type |-> IF shape = "event_type" THEN ty ELSE UndefinedStr,
   magnitude |-> mag,
   description |-> desc]

Shapes == {"type", "event_type"}

CosmicPool(shape) ==
  { Event(shape, 1, planetary_alignment, 21, <<"P", "e", "a">>),
    Event(shape, 2, geomagnetic_weakness, 10, <<"g", "a", "p">>),
    Event(shape, 2, planetary_alignment, 10, <<"P", "e", "a">>) }

EvolutionaryPool(shape) ==
  { Event(shape, 1, speciation, 45, <<"S", "p", "e">>),
    Event(shape, 2, extinction, 45, <<"e", "x">>),
    Event(shape, 3, speciation, 20, <<"s", "a">>) }

FilterTexts == {<<>>, <<"p">>, <<"P", "E">>, <<"x">>}
SortFields == {"timestamp", "type", "magnitude"}

\* The arrays the API can deliver: events of the pool, none twice, in
\* ascending order of timestamp.
ArraysOf(pool) ==
  { a \in UNION { [1..n -> pool] : n \in 0..MaxEvents } :
      /\ \A i, j \in 1..Len(a) : i # j => a[i] # a[j]
      /\ \A i \in 1..(Len(a) - 1) : a[i].timestamp <= a[i + 1].timestamp }

NoClick == [field |-> "none", sortBy |-> "none", sortOrder |-> "none"]

ExplorerIdle ==
  /\ activeDataset = "cosmic"
  /\ filter = <<>>
  /\ sortBy = "timestamp"
  /\ sortOrder = "asc"
  /\ data = <<>>
  /\ propCosmicEvents = <<>>
  /\ propEvolutionaryEvents = <<>>
  /\ received = <<<<>>, <<>>>>
  /\ explorer = "unmounted"
  /\ lastClick = NoClick

\* The useState initial values, with the props the component is created with.
ExplorerInit ==
  /\ activeDataset = "cosmic"
  /\ filter = <<>>
  /\ sortBy = "timestamp"
  /\ sortOrder = "asc"
  /\ data = <<>>
  /\ \E shape \in Shapes :
       /\ propCosmicEvents \in ArraysOf(CosmicPool(shape))
       /\ propEvolutionaryEvents \in ArraysOf(EvolutionaryPool(shape))
  /\ received = <<propCosmicEvents, propEvolutionaryEvents>>
  /\ explorer = "unmounted"
  /\ lastClick = NoClick

\* valA > valB in the comparator, for the values of field sb.
FieldGt(sb, a, b) ==
  CASE sb = "timestamp" -> DateValue(a.timestamp) > DateValue(b.timestamp)
    [] sb = "magnitude" -> a.magnitude > b.magnitude
    [] sb = "type" ->
         /\ a.type # UndefinedStr
         /\ b.type # UndefinedStr
         /\ LexGt(a.type, b.type)

ComparatorAfterAscOnly(sb, so, a, b) == FieldGt(sb, a, b)

\* The comparator returns 1 for (a, b): a is to be placed after b.
ComparatorAfter(sb, so, a, b) ==
  IF so = "asc" THEN FieldGt(sb, a, b) ELSE FieldGt(sb, b, a)

IndexPermutations(n) ==
  { p \in [1..n -> 1..n] : \A i, j \in 1..n : i # j => p[i] # p[j] }

\* Array.prototype.sort with this comparator.  The comparator answers -1
\* for equal values both ways round, so the order among equal values is left
\* to the engine: any arrangement that places no element before one the
\* comparator puts it after.
SortOutcomes(arr, sb, so) ==
  { [i \in 1..Len(arr) |-> arr[p[i]]] :
      p \in { q \in IndexPermutations(Len(arr)) :
                \A i, j \in 1..Len(arr) :
                  i < j => ~ComparatorAfter(sb, so, arr[q[i]], arr[q[j]]) } }

\* The predicate handed to dataset.filter
FilterMatches(event, f) ==
  \/ Includes(ToLowerCase(event.type), ToLowerCase(f))
  \/ Includes(ToLowerCase(event.description), ToLowerCase(f))

\* event.type.toLowerCase() on an event that has no `type` is a TypeError.
FilterThrows(dataset, f) ==
  /\ f # <<>>
  /\ \E i \in 1..Len(dataset) : dataset[i].type = UndefinedStr

\* A render with state (ad, f, sb, so): the useMemo callback.  With an empty
\* filter `dataset` is the prop array itself and sort() reorders it in
\* place; with a filter it is the copy made by filter().
Render(ad, f, sb, so) ==
  LET dataset == IF ad = "cosmic" THEN propCosmicEvents
                 ELSE propEvolutionaryEvents
  IN IF FilterThrows(dataset, f)
     THEN /\ explorer' = "crashed"
          /\ UNCHANGED <<data, propCosmicEvents, propEvolutionaryEvents>>
     ELSE LET filtered ==
                IF f # <<>>
                THEN SelectSeq(dataset, LAMBDA ev : FilterMatches(ev, f))
                ELSE dataset
          IN \E sorted \in SortOutcomes(filtered, sb, so) :
               /\ explorer' = "rendered"
               /\ data' = sorted
               /\ propCosmicEvents' =
                    IF f = <<>> /\ ad = "cosmic" THEN sorted
                    ELSE propCosmicEvents
               /\ propEvolutionaryEvents' =
                    IF f = <<>> /\ ad # "cosmic" THEN sorted
                    ELSE propEvolutionaryEvents

ExplorerMount ==
  /\ explorer = "unmounted"
  /\ Render(activeDataset, filter, sortBy, sortOrder)
  /\ UNCHANGED <<activeDataset, filter, sortBy, sortOrder, received,
                 lastClick>>
  /\ UNCHANGED <<dashVars, apiVars, engVars>>

SetActiveDataset(ad) ==
  /\ explorer = "rendered"
  /\ ad # activeDataset
  /\ activeDataset' = ad
  /\ Render(ad, filter, sortBy, sortOrder)
  /\ lastClick' = NoClick
  /\ UNCHANGED <<filter, sortBy, sortOrder, received>>
  /\ UNCHANGED <<dashVars, apiVars, engVars>>

SetFilter(f) ==
  /\ explorer = "rendered"
  /\ f # filter
  /\ filter' = f
  /\ Render(activeDataset, f, sortBy, sortOrder)
  /\ lastClick' = NoClick
  /\ UNCHANGED <<activeDataset, sortBy, sortOrder, received>>
  /\ UNCHANGED <<dashVars, apiVars, engVars>>

HandleSortDescOnce(field) ==
  /\ explorer = "rendered"
  /\ Len(data) > 0
  /\ IF sortBy = field
     THEN /\ sortOrder' = "desc"
          /\ sortBy' = sortBy
     ELSE /\ sortBy' = field
          /\ sortOrder' = "asc"
  /\ Render(activeDataset, filter, sortBy', sortOrder')
  /\ lastClick' = [field |-> field, sortBy |-> sortBy, sortOrder |-> sortOrder]
  /\ UNCHANGED <<activeDataset, filter, received>>
  /\ UNCHANGED <<dashVars, apiVars, engVars>>

\* A click on a column header: handleSort(field), and the render it causes.
HandleSort(field) ==
  /\ explorer = "rendered"
  /\ Len(data) > 0
  /\ IF sortBy = field
     THEN /\ sortOrder' = IF sortOrder = "asc" THEN "desc" ELSE "asc"
          /\ sortBy' = sortBy
     ELSE /\ sortBy' = field
          /\ sortOrder' = "asc"
  /\ Render(activeDataset, filter, sortBy', sortOrder')
  /\ lastClick' = [field |-> field, sortBy |-> sortBy, sortOrder |-> sortOrder]
  /\ UNCHANGED <<activeDataset, filter, received>>
  /\ UNCHANGED <<dashVars, apiVars, engVars>>

\* The Type cell of a table row: <td>{event.type}</td>
TypeColumn(event) == event.type

ExplorerNext ==
  \/ ExplorerMount
  \/ \E ad \in {"cosmic", "evolutionary"} : SetActiveDataset(ad)
  \/ \E f \in FilterTexts : SetFilter(f)
  \/ \E field \in SortFields : HandleSort(field)

(***************************************************************************)
(* The correlation engine: CosmicEvolutionCorrelator and                   *)
(* CorrelationAnalyzer, from sections 4.3 and 4.4 of the specification.    *)
(* Days are numbered from 1; magnitudes are integers.                      *)
(***************************************************************************)
MinSamples == 3

Days == 1..MaxDay

Ev(day, mag) == [timestamp |-> day, magnitude |-> mag]

\* What the sources can hold: the cosmic events and the fossil records.
UpstreamData ==
  { [cosmic |-> {Ev(4, 1)}, fossil |-> {Ev(1, 1), Ev(4, 1), Ev(5, 1)}],
    [cosmic |-> {Ev(1, 1), Ev(3, 1), Ev(5, 1)},
     fossil |-> {Ev(1, 1), Ev(3, 1), Ev(5, 1)}],
    [cosmic |-> {Ev(4, 1), Ev(5, 1)}, fossil |-> {Ev(1, 1), Ev(5, 1)}],
    [cosmic |-> {Ev(2, 1), Ev(4, 2)},
     fossil |-> {Ev(1, 1), Ev(2, 1), Ev(3, 1), Ev(4, 1), Ev(5, 1)}],
    [cosmic |-> {Ev(2, 1), Ev(3, 2), Ev(4, 1)},
     fossil |-> {Ev(1, 1), Ev(2, 1), Ev(4, 2)}],
    [cosmic |-> {Ev(1, 1), Ev(4, 1)}, fossil |-> {}] }

Availability ==
  { [cosmic |-> TRUE, fossil |-> TRUE],
    [cosmic |-> FALSE, fossil |-> TRUE],
    [cosmic |-> TRUE, fossil |-> FALSE] }

NoResult == [present |-> FALSE, time_lag_days |-> 0, sign |-> 0, num |-> 0,
             den |-> 1, n |-> 0]

NoSeries == [cosmic |-> <<>>, evolutionary |-> <<>>]

Report(ce, ee, rs, b) ==
  [ok |-> TRUE, error |-> "", cosmic_events |-> ce,
   evolutionary_events |-> ee, correlation_results |-> rs,
   best_correlation |-> b]

Failure(e) ==
  [ok |-> FALSE, error |-> e, cosmic_events |-> {},
   evolutionary_events |-> {}, correlation_results |-> <<>>,
   best_correlation |-> NoResult]

NoReport == Failure("")

RECURSIVE SumSeq(_)
SumSeq(q) == IF q = <<>> THEN 0 ELSE Head(q) + SumSeq(Tail(q))

RECURSIVE SumSet(_)
SumSet(S) ==
  IF S = {} THEN 0
  ELSE LET x == CHOOSE y \in S : TRUE IN x.magnitude + SumSet(S \ {x})

RECURSIVE Gcd(_, _)
Gcd(a, b) == IF b = 0 THEN a ELSE Gcd(b, a % b)

Abs(x) == IF x < 0 THEN -x ELSE x

InWindow(events, s, e) ==
  { ev \in events : s <= ev.timestamp /\ ev.timestamp <= e }

\* 4.3 step 1: daily bins over the union of the two event sets' time ranges,
\* each bin the sum of the magnitudes of the events that fall in it.
Discretize(ce, ee) ==
  IF ce \cup ee = {} THEN NoSeries
  ELSE LET days == { ev.timestamp : ev \in ce \cup ee }
           lo == CHOOSE d \in days : \A d2 \in days : d <= d2
           hi == CHOOSE d \in days : \A d2 \in days : d >= d2
           bin(S, d) == SumSet({ ev \in S : ev.timestamp = d })
       IN [cosmic |-> [i \in 1..(hi - lo + 1) |-> bin(ce, lo + i - 1)],
           evolutionary |-> [i \in 1..(hi - lo + 1) |-> bin(ee, lo + i - 1)]]

\* 4.3 step 2: the cosmic series shifted by L days against the evolutionary
\* one, cut to the bins where both are defined.
Overlap(N, L) == { i \in 1..N : i + L \in 1..N }

AlignedCosmic(x, L) ==
  LET lo == IF L < 0 THEN 1 - L ELSE 1
      n == Cardinality(Overlap(Len(x), L))
  IN [k \in 1..n |-> x[lo + k - 1]]

AlignedEvolutionary(y, L) ==
  LET lo == IF L < 0 THEN 1 - L ELSE 1
      n == Cardinality(Overlap(Len(y), L))
  IN [k \in 1..n |-> y[lo + k - 1 + L]]

Products(a, b) == [k \in 1..Len(a) |-> a[k] * b[k]]

\* n * Sum(ab) - Sum(a) * Sum(b): n^2 times the covariance.
CoMoment(a, b) == Len(a) * SumSeq(Products(a, b)) - SumSeq(a) * SumSeq(b)

LagComputableNoMinimum(sr, L) ==
  LET a == AlignedCosmic(sr.cosmic, L)
      b == AlignedEvolutionary(sr.evolutionary, L)
  IN /\ Len(a) >= 1
     /\ CoMoment(a, a) # 0
     /\ CoMoment(b, b) # 0

\* A lag is computed when its overlap has the minimum number of samples and
\* neither aligned series is constant (the denominator of r is not zero).
LagComputable(sr, L) ==
  LET a == AlignedCosmic(sr.cosmic, L)
      b == AlignedEvolutionary(sr.evolutionary, L)
  IN /\ Len(a) >= MinSamples
     /\ CoMoment(a, a) # 0
     /\ CoMoment(b, b) # 0

\* Pearson's r at lag L, kept exact: its sign and r^2 = num / den in lowest
\* terms; n is the number of samples, which with |r| fixes the p-value.
LagResult(sr, L) ==
  LET a == AlignedCosmic(sr.cosmic, L)
      b == AlignedEvolutionary(sr.evolutionary, L)
      c == CoMoment(a, b)
      d == CoMoment(a, a) * CoMoment(b, b)
      g == Gcd(c * c, d)
  IN [present |-> TRUE, time_lag_days |-> L,
      sign |-> IF c > 0 THEN 1 ELSE IF c < 0 THEN -1 ELSE 0,
      num |-> (c * c) \div g, den |-> d \div g, n |-> Len(a)]

AbsRGreater(a, b) == a.num * b.den > b.num * a.den
AbsREqual(a, b) == a.num * b.den = b.num * a.den

\* For two results of equal |r|: a's p-value is the smaller one.  The
\* two-sided t-test p-value is 1 at r = 0 and 0 at |r| = 1 whatever n is,
\* and in between it falls as n grows.
PValueLess(a, b) == a.num # 0 /\ a.num # a.den /\ a.n > b.n

BetterByCoefficientOnly(a, b) ==
  \/ AbsRGreater(a, b)
  \/ AbsREqual(a, b) /\ a.time_lag_days < b.time_lag_days

BetterUnordered(a, b) ==
  \/ AbsRGreater(a, b)
  \/ AbsREqual(a, b) /\ PValueLess(a, b)
  \/ /\ AbsREqual(a, b)
     /\ ~PValueLess(a, b)
     /\ ~PValueLess(b, a)
     /\ Abs(a.time_lag_days) <= Abs(b.time_lag_days)

\* 4.3 step 5: a is preferred to b.  Largest |r|, then smaller p-value, then
\* smaller |lag|; two lags that tie on all three are taken in sweep order.
Better(a, b) ==
  \/ AbsRGreater(a, b)
  \/ AbsREqual(a, b) /\ PValueLess(a, b)
  \/ /\ AbsREqual(a, b)
     /\ ~PValueLess(a, b)
     /\ ~PValueLess(b, a)
     /\ \/ Abs(a.time_lag_days) < Abs(b.time_lag_days)
        \/ /\ Abs(a.time_lag_days) = Abs(b.time_lag_days)
           /\ a.time_lag_days < b.time_lag_days

RECURSIVE OrderedByLag(_)
\* The swept results as the ordered sequence of the report.
OrderedByLag(S) ==
  IF S = {} THEN <<>>
  ELSE LET m == CHOOSE r \in S :
                  \A r2 \in S : r.time_lag_days <= r2.time_lag_days
       IN <<m>> \o OrderedByLag(S \ {m})

ValidRangeInclusive(s, e) == s <= e

\* 4.4: start_date < end_date
ValidRange(s, e) == s < e

EngineIdle ==
  /\ request = [start_date |-> 1, end_date |-> 1, max_lag_days |-> 0]
  /\ upstream = [cosmic |-> {}, fossil |-> {},
                 available |-> [cosmic |-> TRUE, fossil |-> TRUE]]
  /\ call = 0
  /\ pc = "idle"
  /\ cosmicStep = [status |-> "idle", events |-> {}]
  /\ evolutionaryStep = [status |-> "idle", events |-> {}]
  /\ series = NoSeries
  /\ pendingLags = {}
  /\ completed = {}
  /\ running = NoResult
  /\ result = NoReport
  /\ firstResult = NoReport

EngineInit ==
  /\ request \in [start_date : Days, end_date : Days,
                  max_lag_days : 1..MaxLagDays]
  /\ \E u \in UpstreamData, a \in Availability :
       upstream = [cosmic |-> u.cosmic, fossil |-> u.fossil, available |-> a]
  /\ call = 1
  /\ pc = "new"
  /\ cosmicStep = [status |-> "idle", events |-> {}]
  /\ evolutionaryStep = [status |-> "idle", events |-> {}]
  /\ series = NoSeries
  /\ pendingLags = {}
  /\ completed = {}
  /\ running = NoResult
  /\ result = NoReport
  /\ firstResult = NoReport

\* run(start_date, end_date, max_lag_days): the range is validated first.
Validate ==
  /\ pc = "new"
  /\ IF ValidRange(request.start_date, request.end_date)
     THEN /\ pc' = "collect"
          /\ cosmicStep' = [status |-> "pending", events |-> {}]
          /\ evolutionaryStep' = [status |-> "pending", events |-> {}]
          /\ UNCHANGED result
     ELSE /\ pc' = "done"
          /\ result' = Failure("InvalidRange")
          /\ UNCHANGED <<cosmicStep, evolutionaryStep>>
  /\ UNCHANGED <<request, upstream, call, series, pendingLags, completed,
                 running, firstResult>>
  /\ UNCHANGED <<dashVars, apiVars, exVars>>

\* TidalForceEngine.compute(start, end)
CosmicStep ==
  /\ pc = "collect"
  /\ cosmicStep.status = "pending"
  /\ cosmicStep' =
       IF upstream.available.cosmic
       THEN [status |-> "ok",
             events |-> InWindow(upstream.cosmic, request.start_date,
                                 request.end_date)]
       ELSE [status |-> "failed", events |-> {}]
  /\ UNCHANGED <<request, upstream, call, pc, evolutionaryStep, series,
                 pendingLags, completed, running, result, firstResult>>
  /\ UNCHANGED <<dashVars, apiVars, exVars>>

\* EvolutionaryEventCollector.normalize(raw records, start, end)
EvolutionaryStep ==
  /\ pc = "collect"
  /\ evolutionaryStep.status = "pending"
  /\ evolutionaryStep' =
       IF upstream.available.fossil
       THEN [status |-> "ok",
             events |-> InWindow(upstream.fossil, request.start_date,
                                 request.end_date)]
       ELSE [status |-> "failed", events |-> {}]
  /\ UNCHANGED <<request, upstream, call, pc, cosmicStep, series,
                 pendingLags, completed, running, result, firstResult>>
  /\ UNCHANGED <<dashVars, apiVars, exVars>>

\* A missing upstream series ends the request: DataUnavailable, no report.
AbortUnavailable ==
  /\ pc = "collect"
  /\ "failed" \in {cosmicStep.status, evolutionaryStep.status}
  /\ "pending" \notin {cosmicStep.status, evolutionaryStep.status}
  /\ pc' = "done"
  /\ result' = Failure("DataUnavailable")
  /\ UNCHANGED <<request, upstream, call, cosmicStep, evolutionaryStep,
                 series, pendingLags, completed, running, firstResult>>
  /\ UNCHANGED <<dashVars, apiVars, exVars>>

StartCorrelationEarly ==
  /\ pc = "collect"
  /\ cosmicStep.status = "ok"
  /\ pc' = "sweep"
  /\ series' = Discretize(cosmicStep.events, evolutionaryStep.events)
  /\ pendingLags' = (-request.max_lag_days)..request.max_lag_days
  /\ completed' = {}
  /\ running' = NoResult
  /\ UNCHANGED <<request, upstream, call, cosmicStep, evolutionaryStep,
                 result, firstResult>>
  /\ UNCHANGED <<dashVars, apiVars, exVars>>

\* CorrelationAnalyzer.analyze: discretization, then the sweep is opened
\* over every integer lag of [-max_lag_days, +max_lag_days].
StartCorrelation ==
  /\ pc = "collect"
  /\ cosmicStep.status = "ok"
  /\ evolutionaryStep.status = "ok"
  /\ pc' = "sweep"
  /\ series' = Discretize(cosmicStep.events, evolutionaryStep.events)
  /\ pendingLags' = (-request.max_lag_days)..request.max_lag_days
  /\ completed' = {}
  /\ running' = NoResult
  /\ UNCHANGED <<request, upstream, call, cosmicStep, evolutionaryStep,
                 result, firstResult>>
  /\ UNCHANGED <<dashVars, apiVars, exVars>>

\* One lag of the sweep, in whatever order the lags complete.  A lag that
\* cannot be computed leaves no entry; one that can adds its entry and is
\* compared with the best so far.
LagStep(L) ==
  /\ pc = "sweep"
  /\ L \in pendingLags
  /\ pendingLags' = pendingLags \ {L}
  /\ IF LagComputable(series, L)
     THEN LET r == LagResult(series, L)
          IN /\ completed' = completed \cup {r}
             /\ running' =
                  IF ~running.present \/ Better(r, running) THEN r
                  ELSE running
     ELSE UNCHANGED <<completed, running>>
  /\ UNCHANGED <<request, upstream, call, pc, cosmicStep, evolutionaryStep,
                 series, result, firstResult>>
  /\ UNCHANGED <<dashVars, apiVars, exVars>>

\* The report is assembled once every lag has completed.
Assemble ==
  /\ pc = "sweep"
  /\ pendingLags = {}
  /\ pc' = "done"
  /\ result' = Report(cosmicStep.events, evolutionaryStep.events,
                      OrderedByLag(completed), running)
  /\ UNCHANGED <<request, upstream, call, cosmicStep, evolutionaryStep,
                 series, pendingLags, completed, running, firstResult>>
  /\ UNCHANGED <<dashVars, apiVars, exVars>>

\* The same request is made again; the first call's report is kept aside
\* and the engine starts from nothing.
SecondCall ==
  /\ pc = "done"
  /\ call = 1
  /\ call' = 2
  /\ firstResult' = result
  /\ pc' = "new"
  /\ cosmicStep' = [status |-> "idle", events |-> {}]
  /\ evolutionaryStep' = [status |-> "idle", events |-> {}]
  /\ series' = NoSeries
  /\ pendingLags' = {}
  /\ completed' = {}
  /\ running' = NoResult
  /\ result' = NoReport
  /\ UNCHANGED <<request, upstream>>
  /\ UNCHANGED <<dashVars, apiVars, exVars>>

EngineNext ==
  \/ Validate
  \/ CosmicStep
  \/ EvolutionaryStep
  \/ AbortUnavailable
  \/ StartCorrelation
  \/ \E L \in (-MaxLagDays)..MaxLagDays : LagStep(L)
  \/ Assemble
  \/ SecondCall

\* Number.prototype.toFixed: x, a multiple of 1/(10 * 10^d), rounded to d
\* decimals, half away from zero; the result is in units of 10^-d.
ToFixed(x) ==
  IF x >= 0 THEN (x + 5) \div 10 ELSE -((-x + 5) \div 10)

NoCard ==
  [rendered |-> FALSE, coefficient |-> 0, p_value |-> 0, time_lag |-> 0,
   significant |-> "", note |-> ""]

CardFor(best) ==
  [rendered |-> TRUE,
   coefficient |-> ToFixed(best.correlation_coefficient),
   p_value |-> ToFixed(best.p_value),
   time_lag |-> best.time_lag_days,
   significant |-> IF best.significant THEN "Yes" ELSE "No",
   note |-> IF best.significant THEN "significant correlation"
            ELSE "no significant correlation"]

KeyFindingsCardCoefficientGuard ==
  IF /\ correlations # NullData
     /\ correlations.best.present
     /\ correlations.best.correlation_coefficient # 0
  THEN CardFor(correlations.best)
  ELSE NoCard

\* The Key Findings card:
\* {correlations && correlations.best_correlation && (<Card> ... </Card>)}
KeyFindingsCard ==
  IF correlations # NullData /\ correlations.best.present
  THEN CardFor(correlations.best)
  ELSE NoCard

Init == DashInit /\ ApiInit /\ ExplorerIdle /\ EngineIdle

Next ==
  \/ Mount
  \/ \E d \in Dates : ChangeStartDate(d)
  \/ \E d \in Dates : ChangeEndDate(d)
  \/ HandleRefresh
  \/ \E t \in Tabs : SetActiveTab(t)
  \/ Respond

Spec == Init /\ [][Next]_vars

SpecApi == Init /\ [][ApiNext]_vars

InitExplorer == DashInit /\ ApiInit /\ ExplorerInit /\ EngineIdle

InitEngine == DashInit /\ ApiInit /\ ExplorerIdle /\ EngineInit

SpecEngine == InitEngine /\ [][EngineNext]_vars

SpecExplorer == InitExplorer /\ [][ExplorerNext]_vars

(***************************************************************************)
(* Claims about api.js and the Dashboard.                                  *)
(***************************************************************************)

\* C1: an api function returns the parsed body exactly when the body's
\* `success` is truthy, and then it returns that body unchanged; a body with
\* a falsy `success` makes it throw an Error carrying the body's `message`,
\* or the function's fallback text when the message is empty or missing; a
\* failed fetch or json() is rethrown with its own message.
C1_ReturnsOnlySuccess ==
  apiPc = "settled" =>
    /\ (apiResult.kind = "return") <=>
          (apiOutcome.kind = "body" /\ apiOutcome.success \in {"true", "1"})
    /\ apiResult.kind = "return" => apiResult.value = apiOutcome
    /\ apiResult.kind \in {"return", "throw"}
    /\ (apiOutcome.kind = "body" /\ apiOutcome.success \notin {"true", "1"}) =>
          apiResult.message =
            IF apiOutcome.message \in {"", Undefined}
            THEN CASE apiFn = "correlations" -> "Failed to fetch correlations"
                   [] apiFn = "cosmic-events" -> "Failed to fetch cosmic events"
                   [] apiFn = "evolutionary-events" ->
                        "Failed to fetch evolutionary events"
            ELSE apiOutcome.message
    /\ apiOutcome.kind \in {"network", "parse"} =>
          apiResult.message = apiOutcome.message

C1_Witness ==
  /\ apiPc = "settled"
  /\ apiFn = "cosmic-events"
  /\ apiOutcome.kind = "body"
  /\ apiOutcome.success = "0"
  /\ apiOutcome.message = ""
  /\ apiResult.kind = "throw"

\* C2: when a load started by Refresh Analysis has had all three of its
\* requests succeed, the dashboard shows the selected tab (neither spinner
\* nor error alert) and its three datasets are the ones that load received.
C2_RefreshShowsData ==
  [][\A i \in 1..Len(loads) :
       ( /\ loads[i].kind = "refresh"
         /\ loads[i].pc = "evolutionary-events"
         /\ loads'[i].pc = "done" )
       => /\ View' \in Tabs
          /\ correlations' = loads[i].correlationsData
          /\ cosmicEvents' = loads[i].cosmicData
          /\ evolutionaryEvents'.ds = "evolutionary-events"
          /\ evolutionaryEvents'.s = loads[i].s
          /\ evolutionaryEvents'.e = loads[i].e]_vars

\* C3: the Key Findings card is rendered exactly when the loaded report has
\* a best_correlation, whatever its coefficient (0 included) and its
\* significance, and it then shows that result: the coefficient to 4
\* decimals, the p-value to 6, the time lag and Yes/No for significant.
C3_KeyFindings ==
  /\ KeyFindingsCard.rendered <=>
        (correlations # NullData /\ correlations.best.present)
  /\ KeyFindingsCard.rendered =>
        LET b == correlations.best
            c == KeyFindingsCard
        IN /\ 10 * c.coefficient - b.correlation_coefficient \in -5..5
           /\ 10 * c.p_value - b.p_value \in -5..5
           /\ c.time_lag = b.time_lag_days
           /\ (c.significant = "Yes") <=> b.significant
           /\ c.significant \in {"Yes", "No"}

C3_Witness ==
  /\ ~loading
  /\ correlations.ds = "correlations"
  /\ correlations.best.present
  /\ correlations.best.correlation_coefficient = 0
  /\ ~correlations.best.significant
  /\ KeyFindingsCard.rendered

\* C6 as stated: once a load has failed, no request is issued until the
\* user changes a date or clicks Refresh Analysis.
C6_NoRequestAfterFailure ==
  [][(quiet /\ quiet') => fetches' = fetches]_vars

\* C6 as amended: no retry.  A load that has failed or finished never
\* issues another request, and the requests a step issues are one for each
\* load it starts plus one for each load that moves on from a call that
\* succeeded to the next call; a call that fails issues nothing more.
C6_NoAutomaticRetry ==
  [][ /\ \A i \in 1..Len(loads) :
           loads[i].pc \in {"failed", "done"} => loads'[i] = loads[i]
      /\ fetches' - fetches =
           (Len(loads') - Len(loads))
           + Cardinality({ i \in 1..Len(loads) :
                             /\ loads[i].pc \in ApiFns
                             /\ loads'[i].pc \in ApiFns
                             /\ loads'[i].pc # loads[i].pc }) ]_vars

C6_Witness ==
  /\ quiet
  /\ \E i, j \in 1..Len(loads) :
       /\ loads[i].pc = "failed"
       /\ loads[i].at = "correlations"
       /\ loads[j].pc = "evolutionary-events"
  /\ fetches = 4

(***************************************************************************)
(* Claims about the DataExplorer.                                          *)
(***************************************************************************)

\* C4: whatever datasets are selected, filters typed and headers clicked,
\* the cosmicEvents and evolutionaryEvents arrays handed to the DataExplorer
\* keep the elements and the order they were handed over with.
C4_PropsNeverMutated ==
  /\ propCosmicEvents = received[1]
  /\ propEvolutionaryEvents = received[2]

\* C5: events that carry their type in `event_type`, as the data model
\* prescribes, are handled: rendering with a filter never fails on them and
\* the Type column of every row shows the event's event_type.
C5_EventTypeFieldRead ==
  /\ explorer # "crashed"
  /\ explorer = "rendered" =>
       \A i \in 1..Len(data) :
         data[i].event_type # UndefinedStr =>
           TypeColumn(data[i]) = data[i].event_type

(***************************************************************************)
(* Claims about the correlation engine.                                    *)
(***************************************************************************)

\* C7: a request whose start_date is not strictly before its end_date never
\* gets past validation: no upstream step is started, nothing is discretized
\* or swept, and it ends with the InvalidRange error and an empty result.
C7_InvalidRangeRejected ==
  ~(request.start_date < request.end_date) =>
    /\ pc \in {"idle", "new", "done"}
    /\ cosmicStep.status = "idle"
    /\ evolutionaryStep.status = "idle"
    /\ series = NoSeries
    /\ pendingLags = {}
    /\ completed = {}
    /\ pc = "done" =>
         /\ ~result.ok
         /\ result.error = "InvalidRange"
         /\ result.correlation_results = <<>>
         /\ ~result.best_correlation.present
         /\ result.cosmic_events = {}
         /\ result.evolutionary_events = {}

C7_Witness ==
  /\ pc = "done"
  /\ call = 2
  /\ request.start_date = request.end_date
  /\ result.error = "InvalidRange"
  /\ firstResult.error = "InvalidRange"

\* C8: a best_correlation that is present is one of the report's
\* correlation_results; no entry has a larger |correlation_coefficient|; no
\* entry of equal |coefficient| has a smaller p_value; and no entry equal in
\* both has a smaller |time_lag_days|.
C8_BestCorrelation ==
  (pc = "done" /\ result.ok) =>
    LET b == result.best_correlation
        rs == result.correlation_results
    IN /\ b.present <=> rs # <<>>
       /\ b.present =>
            /\ \E i \in 1..Len(rs) : rs[i] = b
            /\ \A i \in 1..Len(rs) :
                 /\ rs[i].num * b.den <= b.num * rs[i].den
                 /\ rs[i].num * b.den = b.num * rs[i].den =>
                      /\ ~PValueLess(rs[i], b)
                      /\ (~PValueLess(b, rs[i])) =>
                           Abs(b.time_lag_days) <= Abs(rs[i].time_lag_days)

C8_Witness ==
  /\ pc = "done"
  /\ result.ok
  /\ result.best_correlation.present
  /\ \E i \in 1..Len(result.correlation_results) :
       LET e == result.correlation_results[i]
           b == result.best_correlation
       IN /\ AbsREqual(e, b)
          /\ ~PValueLess(b, e)
          /\ Abs(e.time_lag_days) > Abs(b.time_lag_days)
  /\ \E i \in 1..Len(result.correlation_results) :
       AbsRGreater(result.best_correlation, result.correlation_results[i])

IsConstant(q) == \A i, j \in 1..Len(q) : q[i] = q[j]

\* The lags of [-max_lag_days, +max_lag_days] that have enough overlapping
\* samples and no constant aligned series.
UsableLags ==
  { L \in (-request.max_lag_days)..request.max_lag_days :
      /\ Len(series.cosmic) - Abs(L) >= MinSamples
      /\ ~IsConstant(AlignedCosmic(series.cosmic, L))
      /\ ~IsConstant(AlignedEvolutionary(series.evolutionary, L)) }

\* C9: a request with a valid range and both sources available ends with a
\* report, however large max_lag_days is; its correlation_results hold
\* exactly one entry for each lag that has the minimum overlap and no
\* constant aligned series, in ascending lag order, and none for any other.
C9_UnusableLagsOmitted ==
  ( /\ pc = "done"
    /\ request.start_date < request.end_date
    /\ upstream.available.cosmic
    /\ upstream.available.fossil ) =>
    LET rs == result.correlation_results
    IN /\ result.ok
       /\ { rs[i].time_lag_days : i \in 1..Len(rs) } = UsableLags
       /\ Len(rs) = Cardinality(UsableLags)
       /\ \A i \in 1..Len(rs) : rs[i].present /\ rs[i].n >= MinSamples
       /\ \A i \in 1..(Len(rs) - 1) :
            rs[i].time_lag_days < rs[i + 1].time_lag_days

C9_Witness ==
  /\ pc = "done"
  /\ result.ok
  /\ request.max_lag_days >= Len(series.cosmic)
  /\ Len(result.correlation_results) >= 1
  /\ \E L \in (-request.max_lag_days)..request.max_lag_days :
       /\ Len(series.cosmic) - Abs(L) >= MinSamples
       /\ IsConstant(AlignedCosmic(series.cosmic, L))

C11_CorrelationAfterBothSteps ==
  /\ (pc = "sweep" \/ series # NoSeries \/ completed # {} \/ result.ok) =>
       /\ cosmicStep.status = "ok"
       /\ evolutionaryStep.status = "ok"
  /\ "failed" \in {cosmicStep.status, evolutionaryStep.status} =>
       /\ pc \in {"collect", "done"}
       /\ series = NoSeries
       /\ pendingLags = {}
       /\ completed = {}
       /\ ~running.present
       /\ pc = "done" =>
            /\ ~result.ok
            /\ result.error = "DataUnavailable"
            /\ result.correlation_results = <<>>
            /\ ~result.best_correlation.present

C11_Witness ==
  /\ pc = "done"
  /\ cosmicStep.status = "ok"
  /\ cosmicStep.events # {}
  /\ evolutionaryStep.status = "failed"
  /\ result.error = "DataUnavailable"

(***************************************************************************)
(* Further claims about the DataExplorer.                                  *)
(***************************************************************************)

\* The type of an event, whichever of the two fields carries it.
EventType(ev) == IF ev.type # UndefinedStr THEN ev.type ELSE ev.event_type

\* The events of the selected dataset, as handed to the component.
SelectedDataset ==
  LET arr == IF activeDataset = "cosmic" THEN received[1] ELSE received[2]
  IN { arr[i] : i \in 1..Len(arr) }

\* The events the filter text asks for.
Wanted ==
  { ev \in SelectedDataset :
      \/ filter = <<>>
      \/ Includes(ToLowerCase(EventType(ev)), ToLowerCase(filter))
      \/ Includes(ToLowerCase(ev.description), ToLowerCase(filter)) }

\* C12: the table always renders, and its rows are exactly the events of the
\* selected dataset whose type or description contains the filter text
\* without regard to case; with an empty filter they are all its events.
C12_Filterable ==
  /\ explorer # "crashed"
  /\ explorer = "rendered" =>
       /\ { data[i] : i \in 1..Len(data) } = Wanted
       /\ Len(data) = Cardinality(Wanted)

\* The same for datasets whose events carry their type in `type`.
FilterableWhenTyped ==
  (\A ev \in SelectedDataset : ev.type # UndefinedStr) => C12_Filterable

\* The value of the sort field in a is greater than in b: timestamps as
\* dates, magnitudes as numbers, types as strings.
SortKeyGreater(a, b) ==
  CASE sortBy = "timestamp" -> a.timestamp > b.timestamp
    [] sortBy = "magnitude" -> a.magnitude > b.magnitude
    [] sortBy = "type" -> LexGt(a.type, b.type)

\* C13: when every shown event carries the sort field, the rows are in
\* non-decreasing order of that field under 'asc' and in non-increasing
\* order under 'desc', also when several events have equal values.
C13_Sortable ==
  ( /\ explorer = "rendered"
    /\ sortBy = "type" => \A i \in 1..Len(data) : data[i].type # UndefinedStr )
  =>
    \A i, j \in 1..Len(data) :
      i < j => IF sortOrder = "asc" THEN ~SortKeyGreater(data[i], data[j])
               ELSE ~SortKeyGreater(data[j], data[i])

C13_Witness ==
  /\ explorer = "rendered"
  /\ sortBy = "magnitude"
  /\ sortOrder = "desc"
  /\ Len(data) = 3
  /\ data[1].magnitude > data[2].magnitude
  /\ data[2].magnitude = data[3].magnitude

\* C18: a click on the header of the current sort column flips sortOrder and
\* keeps sortBy, so the second of two clicks in a row on that header brings
\* back the sortBy and sortOrder the first one found; a click on another
\* header makes that column the sort column, ascending.  No click changes
\* the filter text or the selected dataset.
C18_HeaderClick ==
  [][ \A field \in SortFields :
        HandleSort(field) =>
          /\ filter' = filter
          /\ activeDataset' = activeDataset
          /\ IF field = sortBy
             THEN /\ sortBy' = sortBy
                  /\ <<sortOrder, sortOrder'>> \in
                       {<<"asc", "desc">>, <<"desc", "asc">>}
             ELSE /\ sortBy' = field
                  /\ sortOrder' = "asc"
          /\ (lastClick.field = field /\ lastClick.sortBy = field) =>
               /\ sortBy' = lastClick.sortBy
               /\ sortOrder' = lastClick.sortOrder ]_vars

C18_Witness ==
  /\ explorer = "rendered"
  /\ filter # <<>>
  /\ lastClick = [field |-> "magnitude", sortBy |-> "magnitude",
                  sortOrder |-> "desc"]
  /\ sortBy = "magnitude"
  /\ sortOrder = "asc"

(***************************************************************************)
(* Further claims about the Dashboard.                                     *)
(***************************************************************************)

\* The messages a failing call of fn can throw: that of a rejected fetch,
\* the body's message, or the function's fallback text.
FailureMessages(fn) ==
  {"Failed to fetch", "InvalidRange",
   CASE fn = "correlations" -> "Failed to fetch correlations"
     [] fn = "cosmic-events" -> "Failed to fetch cosmic events"
     [] fn = "evolutionary-events" -> "Failed to fetch evolutionary events"}

\* C14: a load begins with the correlations request; it moves from
\* correlations to cosmic events and from cosmic events to evolutionary
\* events only on a successful response, whose data is then in the state;
\* when a request fails the load issues nothing more, error becomes the
\* failure's message and loading becomes false; a load that has failed or
\* finished does nothing further.
C14_RequestOrder ==
  [][ /\ \A i \in (Len(loads) + 1)..Len(loads') :
           loads'[i].pc = "correlations"
      /\ \A i \in 1..Len(loads) :
           /\ loads[i].pc \in {"failed", "done"} => loads'[i] = loads[i]
           /\ loads'[i].pc # loads[i].pc =>
                \/ /\ loads[i].pc = "correlations"
                   /\ loads'[i].pc = "cosmic-events"
                   /\ correlations'.ds = "correlations"
                   /\ <<correlations'.s, correlations'.e>> =
                        <<loads[i].s, loads[i].e>>
                   /\ fetches' = fetches + 1
                \/ /\ loads[i].pc = "cosmic-events"
                   /\ loads'[i].pc = "evolutionary-events"
                   /\ cosmicEvents'.ds = "cosmic-events"
                   /\ <<cosmicEvents'.s, cosmicEvents'.e>> =
                        <<loads[i].s, loads[i].e>>
                   /\ fetches' = fetches + 1
                \/ /\ loads[i].pc = "evolutionary-events"
                   /\ loads'[i].pc = "done"
                   /\ evolutionaryEvents'.ds = "evolutionary-events"
                   /\ <<evolutionaryEvents'.s, evolutionaryEvents'.e>> =
                        <<loads[i].s, loads[i].e>>
                   /\ fetches' = fetches
                \/ /\ loads[i].pc \in ApiFns
                   /\ loads'[i].pc = "failed"
                   /\ loads'[i].at = loads[i].pc
                   /\ fetches' = fetches
                   /\ loading' = FALSE
                   /\ error' \in FailureMessages(loads[i].pc) ]_vars

C14_Witness ==
  /\ Len(loads) = 1
  /\ loads[1].pc = "failed"
  /\ loads[1].at = "cosmic-events"
  /\ correlations.ds = "correlations"
  /\ cosmicEvents = EmptyArray
  /\ fetches = 2
  /\ error = "Failed to fetch cosmic events"
  /\ ~loading

\* A load still has a request outstanding.
InFlight == \E i \in 1..Len(loads) : loads[i].pc \in ApiFns

\* C15: whenever no load is in flight and no error is shown, the three
\* datasets are responses to requests made with the selected startDate and
\* endDate.
C15_LatestSelectionShown ==
  (mounted /\ ~InFlight /\ error = Null) =>
    /\ correlations.ds = "correlations"
    /\ cosmicEvents.ds = "cosmic-events"
    /\ evolutionaryEvents.ds = "evolutionary-events"
    /\ \A d \in {correlations, cosmicEvents, evolutionaryEvents} :
         <<d.s, d.e>> = <<startDate, endDate>>

\* C16: whenever a load has a request outstanding, loading is true and the
\* spinner is what the dashboard shows.
C16_SpinnerWhileInFlight ==
  InFlight => (loading /\ View = "spinner")

\* C17 as stated, for the load made on mount while it is the only one: it
\* started with the initial datasets, so when one of its requests fails
\* correlations, cosmicEvents and evolutionaryEvents are the initial ones.
C17_FailedLoadChangesNothing ==
  [][ ( /\ Len(loads) = 1
        /\ Len(loads') = 1
        /\ loads[1].pc \in ApiFns
        /\ loads'[1].pc = "failed" ) =>
          <<correlations', cosmicEvents', evolutionaryEvents'>> =
            <<NullData, EmptyArray, EmptyArray>> ]_vars

\* C17 as amended: the step in which a request of a load fails changes none
\* of correlations, cosmicEvents and evolutionaryEvents; what the load's
\* earlier requests had put there stays.
C17_FailureStepChangesNothing ==
  [][ \A i \in 1..Len(loads) :
        (loads[i].pc \in ApiFns /\ loads'[i].pc = "failed") =>
          <<correlations', cosmicEvents', evolutionaryEvents'>> =
            <<correlations, cosmicEvents, evolutionaryEvents>> ]_vars

C17_Witness ==
  /\ Len(loads) = 1
  /\ loads[1].pc = "failed"
  /\ loads[1].at = "evolutionary-events"
  /\ correlations.ds = "correlations"
  /\ correlations.best.present
  /\ cosmicEvents.ds = "cosmic-events"
  /\ evolutionaryEvents = EmptyArray
  /\ error = "InvalidRange"

====
